---- MODULE Spec2Model ----
(***************************************************************************)
(* Model of the deployer package: AlgoTrader (deployer/trader.py), the     *)
(* AutoDeployer session drivers (deployer/deploy.py) and ConfigManager     *)
(* (deployer/config/loader.py).  The MetaTrader5 terminal (feed, order     *)
(* gateway, wall clock) is the environment: every answer it can give is a  *)
(* nondeterministic input of the action that asks for it.                  *)
(*                                                                         *)
(* Time is counted in slots: SlotsPerHour slots make one wall-clock hour,  *)
(* slot 0 is FirstHour:00.  Bar timestamps and the wall clock share the    *)
(* axis.                                                                   *)
(***************************************************************************)
EXTENDS Integers, Sequences, FiniteSets, TLC

\* ------------------------------------------------------------- bounds
MaxTime == 3
SlotsPerHour == 2
MaxBars == 3
MaxHist == 2
MaxLot == 4
DayHours == 3

\* ------------------------------------------------- program constants
CutoffHour == 18
DefaultEndHour == 17
DefaultEndMinute == 54
MinutesPerHour == 60
ORDER_TYPE_BUY == 0
ORDER_TYPE_SELL == 1

\* None / NaN where the code holds a number
Null == -99

FirstHour == CutoffHour - 2

HourOf(t) == FirstHour + (t \div SlotsPerHour)

\* the slots of an hour are spread from hh:00 to hh:59
MinuteOf(t) ==
    IF SlotsPerHour = 1 THEN 0
    ELSE ((t % SlotsPerHour) * (MinutesPerHour - 1)) \div (SlotsPerHour - 1)

\* (mutant) the end of the session compared by the hour alone
BeforeEndOfHour(t, hour, minute) == HourOf(t) <= hour

\* dt.datetime.now() < datetime(year, month, day, hour, minute, 0)
Before(t, hour, minute) ==
    \/ HourOf(t) < hour
    \/ HourOf(t) = hour /\ MinuteOf(t) < minute

Times == 0..MaxTime

Signals == {-1, 0, 1}

\* what a strategy function can yield for one bar: a signal or NaN
Raws == Signals \cup {Null}

\* which call of a tick raises an exception, if any: _update_data, the
\* strategy function, _execute_trades or _check_and_update_params
Faults == {"none", "store", "strategy", "execute", "params"}

\* how the terminal answers _open_position: no quote, order_check None or
\* non-zero, order_send None, a requote or price change (retcode 10004,
\* 10020), another retcode that is not DONE, or DONE
OpenOutcomes ==
    {"no_tick", "check_none", "check_reject", "send_none", "send_requote",
     "send_reject", "done"}

\* copy_rates_from_pos answered None or nothing
NoBar == [time |-> Null, raw |-> Null]

Last(s) == s[Len(s)]

\* ------------------------------------------------------ configuration
\* StrategyConfig.hours / hour_params as ConfigLoader returns them
ConfiguredHours == {{FirstHour}, {FirstHour + 1}, {FirstHour, FirstHour + 1}}

\* allowed_hours=None of a strategy's parameters (no hour restriction)
AllowedNone == {Null}

\* the first hour trades the long side only, the later hours both sides
HourParams(h) ==
    [tp |-> 10 * h, sl |-> 5 * h,
     position_type |-> IF h = FirstHour THEN "long" ELSE "both",
     allowed_hours |-> AllowedNone]

Modes == {"current", "continuous", "full_day"}

VARIABLES
    now,            \* wall clock (slot)
    mode,           \* deploy_from_config mode
    hours,          \* config.hours
    pc,             \* control point of the deployer / session
    dayIdx,         \* run_full_day: index into sorted(config.hours)
    target,         \* hour handed to deploy_for_hour
    waited,         \* run_current_session: wait_for_next_trading_hour was used
    waiting,        \* wait_for_next_trading_hour: its argument and locals
    file,           \* the parsed JSON of config_path
    config,         \* AutoDeployer.config (ConfigManager.config)
    strategies_file,\* AutoDeployer.strategies_file
    strategy,       \* AutoDeployer.strategy_func, by name
    terminal,       \* the MetaTrader5 terminal connection (module global)
    mt5_connected,  \* AlgoTrader.mt5_connected
    lot_size,       \* AlgoTrader.lot_size, in hundredths of a lot
    symbol_info,    \* AlgoTrader.symbol_info (volume_min, volume_max, volume_step)
    data,           \* AlgoTrader.data
    prepared,       \* AlgoTrader.prepared_data['position']
    position,       \* AlgoTrader.position
    trades,         \* AlgoTrader.trades
    trade_values,   \* AlgoTrader.trade_values
    quote_units,    \* AlgoTrader.quote_units
    current_hour,   \* AlgoTrader.current_hour
    tp, sl,         \* AlgoTrader.tp, AlgoTrader.sl
    strategy_params,\* AlgoTrader.strategy_params
    end_time,       \* _stream_and_trade: end_time, as <<hour, minute>>
    rates,          \* _stream_and_trade: the bar read by the latest pass
    escaped,        \* an exception is propagating out of start_trading
    broker,         \* open positions of the symbol at the broker
    orders,         \* requests handed to the order gateway in this session
    evaluated,      \* bar timestamps for which _process_strategy ran
    returned,       \* what _open_position returned to _execute_trades last
    flattened,      \* _close_all_positions ran in this session
    passes,         \* passes left of the loop of _close_all_positions
    started         \* start_trading was entered in this session

traderVars == <<mt5_connected, lot_size, symbol_info, data, prepared, position, trades, trade_values,
                quote_units, current_hour, tp, sl, strategy_params>>
sessionVars == <<end_time, rates, escaped, orders, evaluated, returned, flattened,
                 passes, started>>
deployVars == <<mode, hours, dayIdx, target, waited, waiting, file, config,
               strategies_file, strategy>>
vars == <<now, pc, terminal, broker, traderVars, sessionVars, deployVars>>

HourNow == HourOf(now)

\* ------------------------------------------------ ConfigManager
is_trading_hour(h) == h \in hours

\* get_current_hour_params(h) is None iff h is not in config.hours
HasHourParams(h) == h \in hours

get_current_hour_params(h) == HourParams(h)

RECURSIVE SortedSeq(_)
SortedSeq(S) ==
    IF S = {} THEN <<>>
    ELSE LET m == CHOOSE x \in S : \A y \in S : x <= y
         IN <<m>> \o SortedSeq(S \ {m})

SetMax(S) == CHOOSE x \in S : \A y \in S : y <= x

\* (mutant) get_next_trading_hour answering the first hour of the day
next_trading_hour_first(hs, hour) ==
    IF hs # {} THEN CHOOSE h \in hs : \A g \in hs : h <= g ELSE Null

\* AutoDeployer.get_next_trading_hour for the configured hours hs when the
\* clock shows hour: the first hour of sorted(hs) greater than hour, else
\* sorted(hs)[0], None when hs is empty
next_trading_hour(hs, hour) ==
    LET later == {h \in hs : h > hour}
    IN IF later # {} THEN CHOOSE h \in later : \A g \in later : h <= g
       ELSE IF hs # {} THEN CHOOSE h \in hs : \A g \in hs : h <= g
       ELSE Null

\* AutoDeployer.get_next_trading_hour
get_next_trading_hour == next_trading_hour(hours, HourNow)

\* ------------------------------------------------ ConfigLoader
\* The parsed JSON file is a record: present names the top-level fields it
\* has, hours_is_list tells whether 'hours' is a list, hour_params maps the
\* hours that have an entry to it (string keys are written as the hour),
\* lote is Null when the file has none.  An entry of hour_params names its own
\* fields in present.
RequiredFields == {"symbol", "timeframe", "strategy", "hours", "hour_params"}
RequiredParams == {"tp", "sl", "position_type"}
VALID_TIMEFRAMES == {"t1", "t5", "t15", "t30", "h1", "h4", "d1"}
ValidPositions == {"long", "short", "both"}

\* data.get('lote', 1.0), in hundredths of a lot
DefaultLote == 100

\* (mutant) _validate_hour_params without the stop-loss test
validate_hour_params_no_sl(params) ==
    IF RequiredParams \ params.present # {} THEN "missing_param"
    ELSE IF params.position_type \notin ValidPositions THEN "position_type"
    ELSE IF params.tp <= 0 THEN "tp"
    ELSE "ok"

\* ConfigLoader._validate_hour_params: "ok", or what the ValueError is about
validate_hour_params(params) ==
    IF RequiredParams \ params.present # {} THEN "missing_param"
    ELSE IF params.position_type \notin ValidPositions THEN "position_type"
    ELSE IF params.tp <= 0 THEN "tp"
    ELSE IF params.sl <= 0 THEN "sl"
    ELSE "ok"

\* ConfigLoader._validate_config: "ok", or what the ValueError is about
validate_config(cfg) ==
    IF RequiredFields \ cfg.present # {} THEN "missing_field"
    ELSE IF cfg.timeframe \notin VALID_TIMEFRAMES THEN "timeframe"
    ELSE IF ~cfg.hours_is_list \/ cfg.hours = <<>> THEN "hours"
    ELSE LET Check(i) ==
                 IF cfg.hours[i] \notin DOMAIN cfg.hour_params
                 THEN "missing_hour_params"
                 ELSE validate_hour_params(cfg.hour_params[cfg.hours[i]])
             bad == {i \in 1..Len(cfg.hours) : Check(i) # "ok"}
         IN IF bad = {} THEN "ok"
            ELSE Check(CHOOSE i \in bad : \A j \in bad : i <= j)

\* no StrategyConfig: load_strategy_config raised
NoConfig ==
    [symbol |-> "none", timeframe |-> "none", strategy |-> "none", hours |-> <<>>,
     hour_params |-> <<>>, lote |-> Null]

\* ConfigLoader.load_strategy_config on the parsed file: the StrategyConfig,
\* or NoConfig when _validate_config raised
load_strategy_config(cfg) ==
    IF validate_config(cfg) # "ok" THEN NoConfig
    ELSE [symbol |-> cfg.symbol, timeframe |-> cfg.timeframe,
          strategy |-> cfg.strategy, hours |-> cfg.hours,
          hour_params |-> cfg.hour_params,
          lote |-> IF cfg.lote = Null THEN DefaultLote ELSE cfg.lote]

\* the entry of a file for hour h that HourParams(h) is loaded from
FileParams(h) ==
    [present |-> RequiredParams, tp |-> HourParams(h).tp, sl |-> HourParams(h).sl,
     position_type |-> HourParams(h).position_type]

\* a valid file that declares the hours hs and the strategy name, lot size lote
FileOf(hs, name, lote) ==
    [present |-> RequiredFields, symbol |-> "WIN", timeframe |-> "t5",
     strategy |-> name, hours_is_list |-> TRUE, hours |-> SortedSeq(hs),
     hour_params |-> [h \in hs |-> FileParams(h)], lote |-> lote]

\* ------------------------------------------------ AutoDeployer._load_strategy
\* the strategies of the package, and the callables and the other names of
\* a strategies file given by the user
BuiltinStrategies == {"pattern_rsi_trend", "bb_trend"}
FileCallables == {"custom"}
FileNames == FileCallables \cup {"PERIOD"}
StrategiesFiles == {"builtin", "entries", "missing"}
NoStrategy == "unset"

\* (mutant) an unknown name falls back to a strategy of the package
load_strategy_with_default(name, sfile) ==
    IF sfile = "builtin"
    THEN IF name \in BuiltinStrategies THEN name ELSE "pattern_rsi_trend"
    ELSE IF sfile = "missing" THEN NoStrategy
    ELSE IF name \notin FileNames THEN "pattern_rsi_trend"
    ELSE IF name \notin FileCallables THEN NoStrategy
    ELSE name

\* AutoDeployer._load_strategy: the function found under the name, or
\* NoStrategy when it raised
load_strategy(name, sfile) ==
    IF sfile = "builtin"
    THEN IF name \in BuiltinStrategies THEN name ELSE NoStrategy
    ELSE IF sfile = "missing" THEN NoStrategy
    ELSE IF name \notin FileNames THEN NoStrategy
    ELSE IF name \notin FileCallables THEN NoStrategy
    ELSE name

\* the deployer as AutoDeployer.__init__ leaves it for a valid file that
\* declares config.hours, the strategy name and the lot size lote
Constructed(name, sfile, lote) ==
    /\ file = FileOf(hours, name, lote)
    /\ config = load_strategy_config(file)
    /\ strategies_file = sfile
    /\ strategy = load_strategy(name, sfile)

\* ------------------------------------------------ signal evaluation
\* self.strategy_func(df, **self.strategy_params): the strategy is a pluggable
\* pure function of the window; its value for a bar is carried by the bar.
strategy_func(df, params) == [i \in 1..Len(df) |-> df[i].raw]

\* df.loc[df.index.to_series().dt.hour >= 18, 'position'] = 0
ZeroAfterCutoff(df, positions) ==
    [i \in 1..Len(df) |->
        IF HourOf(df[i].time) >= CutoffHour THEN 0 ELSE positions[i]]

\* (mutant) fillna(0) without the forward fill
FillnaOnly(positions) ==
    [i \in 1..Len(positions) |-> IF positions[i] = Null THEN 0 ELSE positions[i]]

\* df['position'].ffill().fillna(0)
FfillFillna(positions) ==
    [i \in 1..Len(positions) |->
        LET known == {j \in 1..i : positions[j] # Null}
        IN IF known = {} THEN 0
           ELSE positions[CHOOSE j \in known : \A k \in known : k <= j]]

\* _process_strategy after the strategy call: the 'position' column of
\* prepared_data
ProcessPositions(df, positions) == FfillFillna(ZeroAfterCutoff(df, positions))

\* AlgoTrader._process_strategy with the pluggable strategy
process_strategy(df, params) == ProcessPositions(df, strategy_func(df, params))

\* The supplied strategies read indicators of the window. What the indicators
\* say of a bar is carried by the bar: 1 when the long-side condition holds
\* (long_condition, cond1), -1 when the short-side one holds (short_condition,
\* cond2), 0 when neither, Null while the indicators are NaN, which makes
\* every comparison false.

\* the hour restriction both strategies end with
RestrictHours(df, positions, allowed_hours) ==
    [i \in 1..Len(df) |->
        IF allowed_hours # AllowedNone /\ HourOf(df[i].time) \notin allowed_hours
        THEN 0 ELSE positions[i]]

\* (mutant) the strategy returns before the hour restriction
pattern_rsi_trend_unrestricted(df, allowed_hours, position_type) ==
    [i \in 1..Len(df) |-> IF df[i].raw = Null THEN 0 ELSE df[i].raw]

\* entries.pattern_rsi_trend
pattern_rsi_trend(df, allowed_hours, position_type) ==
    LET long_condition(i) == df[i].raw = 1
        short_condition(i) == df[i].raw = -1
        positions ==
            [i \in 1..Len(df) |->
                CASE position_type = "long" -> IF long_condition(i) THEN 1 ELSE 0
                  [] position_type = "short" -> IF short_condition(i) THEN -1 ELSE 0
                  [] OTHER -> IF long_condition(i) THEN 1
                              ELSE IF short_condition(i) THEN -1 ELSE 0]
    IN RestrictHours(df, positions, allowed_hours)

\* entries.bb_trend (position_type is one of long, short, both)
bb_trend(df, allowed_hours, position_type) ==
    LET cond1(i) == df[i].raw = 1
        cond2(i) == df[i].raw = -1
        positions ==
            [i \in 1..Len(df) |->
                CASE position_type = "both" ->
                       IF cond2(i) THEN -1 ELSE IF cond1(i) THEN 1 ELSE 0
                  [] position_type = "long" -> IF cond2(i) THEN -1 ELSE 0
                  [] position_type = "short" -> IF cond1(i) THEN 1 ELSE 0]
    IN RestrictHours(df, positions, allowed_hours)

\* ------------------------------------------------ volume
\* Volumes are counted in hundredths of a lot.
NoSymbolInfo == [volume_min |-> Null, volume_max |-> Null, volume_step |-> Null]

\* a symbol traded in whole lots, one to a hundred
DefaultSymbolInfo == [volume_min |-> 100, volume_max |-> 10000, volume_step |-> 100]

\* _validate_parameters: the lot size clamped to the symbol's minimum and
\* maximum
validate_lot_size(lot, info) ==
    IF lot < info.volume_min THEN info.volume_min
    ELSE IF lot > info.volume_max THEN info.volume_max
    ELSE lot

\* Python's round(n / d) for positive integers: to the nearest integer, a tie
\* to the even one
RoundHalfEven(n, d) ==
    LET q == n \div d
        r == n % d
    IN IF 2 * r < d THEN q
       ELSE IF 2 * r > d THEN q + 1
       ELSE IF q % 2 = 0 THEN q ELSE q + 1

\* _open_position: round(self.lot_size / volume_step) * volume_step
adjusted_volume(lot, volume_step) == RoundHalfEven(lot, volume_step) * volume_step

\* ------------------------------------------------ order gateway

Entry(call, kind, type, tpv, slv, at, ret) ==
    [call |-> call, kind |-> kind, type |-> type, tp |-> tpv, sl |-> slv,
     at |-> at, ret |-> ret, volume |-> Null]

Opposite(type) == IF type = ORDER_TYPE_BUY THEN ORDER_TYPE_SELL ELSE ORDER_TYPE_BUY

\* The engine state an order operation reads and writes.
EngineState ==
    [position |-> position, trades |-> trades, trade_values |-> trade_values,
     quote_units |-> quote_units, broker |-> broker, orders |-> orders,
     lot_size |-> lot_size, symbol_info |-> symbol_info]

\* adjusted_volume * price of the request (one lot at the unit price)
QuoteUnits == 1

\* (mutant) _open_position submitting whatever order_check answered
open_position_unchecked(st, sig, outcome, at, tpv, slv) ==
    LET type == IF sig = 1 THEN ORDER_TYPE_BUY ELSE ORDER_TYPE_SELL
        volume == adjusted_volume(st.lot_size, st.symbol_info.volume_step)
        chk(ret) == [Entry("order_check", "open", type, tpv, slv, at, ret)
                        EXCEPT !.volume = volume]
        snd(ret) == [Entry("order_send", "open", type, tpv, slv, at, ret)
                        EXCEPT !.volume = volume]
        checked == CASE outcome = "check_none" -> "none"
                     [] outcome = "check_reject" -> "reject"
                     [] OTHER -> "ok"
    IN CASE outcome = "no_tick" -> st
         [] outcome = "send_none" ->
              [st EXCEPT !.orders = @ \o <<chk("ok"), snd("none")>>]
         [] outcome = "send_requote" ->
              [st EXCEPT !.orders = @ \o <<chk("ok"), snd("requote")>>]
         [] outcome = "send_reject" ->
              [st EXCEPT !.orders = @ \o <<chk("ok"), snd("reject")>>]
         [] OTHER ->
              [st EXCEPT !.orders = @ \o <<chk(checked), snd("done")>>,
                         !.position = sig,
                         !.trades = @ + 1,
                         !.quote_units = QuoteUnits,
                         !.trade_values =
                             Append(@, IF sig = 1 THEN -QuoteUnits ELSE QuoteUnits),
                         !.broker = Append(@, type)]

\* (mutant) _open_position submitting a rejected order a second time
open_position_retrying(st, sig, outcome, at, tpv, slv) ==
    LET type == IF sig = 1 THEN ORDER_TYPE_BUY ELSE ORDER_TYPE_SELL
        volume == adjusted_volume(st.lot_size, st.symbol_info.volume_step)
        chk(ret) == [Entry("order_check", "open", type, tpv, slv, at, ret)
                        EXCEPT !.volume = volume]
        snd(ret) == [Entry("order_send", "open", type, tpv, slv, at, ret)
                        EXCEPT !.volume = volume]
    IN CASE outcome = "no_tick" -> st
         [] outcome = "check_none" ->
              [st EXCEPT !.orders = Append(@, chk("none"))]
         [] outcome = "check_reject" ->
              [st EXCEPT !.orders = Append(@, chk("reject"))]
         [] outcome = "send_none" ->
              [st EXCEPT !.orders = @ \o <<chk("ok"), snd("none")>>]
         [] outcome = "send_requote" ->
              [st EXCEPT !.orders = @ \o <<chk("ok"), snd("requote")>>]
         [] outcome = "send_reject" ->
              [st EXCEPT !.orders = @ \o <<chk("ok"), snd("reject"), snd("reject")>>]
         [] outcome = "done" ->
              [st EXCEPT !.orders = @ \o <<chk("ok"), snd("done")>>,
                         !.position = sig,
                         !.trades = @ + 1,
                         !.quote_units = QuoteUnits,
                         !.trade_values =
                             Append(@, IF sig = 1 THEN -QuoteUnits ELSE QuoteUnits),
                         !.broker = Append(@, type)]

\* (mutant) _open_position booking the fill of an order the gateway rejected
open_position_booking_rejects(st, sig, outcome, at, tpv, slv) ==
    LET type == IF sig = 1 THEN ORDER_TYPE_BUY ELSE ORDER_TYPE_SELL
        volume == adjusted_volume(st.lot_size, st.symbol_info.volume_step)
        chk(ret) == [Entry("order_check", "open", type, tpv, slv, at, ret)
                        EXCEPT !.volume = volume]
        snd(ret) == [Entry("order_send", "open", type, tpv, slv, at, ret)
                        EXCEPT !.volume = volume]
    IN CASE outcome = "no_tick" -> st
         [] outcome = "check_none" ->
              [st EXCEPT !.orders = Append(@, chk("none"))]
         [] outcome = "check_reject" ->
              [st EXCEPT !.orders = Append(@, chk("reject"))]
         [] outcome = "send_none" ->
              [st EXCEPT !.orders = @ \o <<chk("ok"), snd("none")>>]
         [] outcome = "send_requote" ->
              [st EXCEPT !.orders = @ \o <<chk("ok"), snd("requote")>>]
         [] outcome = "send_reject" ->
              [st EXCEPT !.orders = @ \o <<chk("ok"), snd("reject")>>,
                         !.trade_values =
                             Append(@, IF sig = 1 THEN -QuoteUnits ELSE QuoteUnits)]
         [] outcome = "done" ->
              [st EXCEPT !.orders = @ \o <<chk("ok"), snd("done")>>,
                         !.position = sig,
                         !.trades = @ + 1,
                         !.quote_units = QuoteUnits,
                         !.trade_values =
                             Append(@, IF sig = 1 THEN -QuoteUnits ELSE QuoteUnits),
                         !.broker = Append(@, type)]

\* (mutant) _open_position recording the position before the gateway answers
open_position_optimistic(st, sig, outcome, at, tpv, slv) ==
    LET type == IF sig = 1 THEN ORDER_TYPE_BUY ELSE ORDER_TYPE_SELL
        volume == adjusted_volume(st.lot_size, st.symbol_info.volume_step)
        chk(ret) == [Entry("order_check", "open", type, tpv, slv, at, ret)
                        EXCEPT !.volume = volume]
        snd(ret) == [Entry("order_send", "open", type, tpv, slv, at, ret)
                        EXCEPT !.volume = volume]
    IN CASE outcome = "no_tick" -> st
         [] outcome = "check_none" ->
              [st EXCEPT !.orders = Append(@, chk("none"))]
         [] outcome = "check_reject" ->
              [st EXCEPT !.orders = Append(@, chk("reject"))]
         [] outcome = "send_none" ->
              [st EXCEPT !.orders = @ \o <<chk("ok"), snd("none")>>,
                         !.position = sig]
         [] outcome = "send_requote" ->
              [st EXCEPT !.orders = @ \o <<chk("ok"), snd("requote")>>,
                         !.position = sig]
         [] outcome = "send_reject" ->
              [st EXCEPT !.orders = @ \o <<chk("ok"), snd("reject")>>,
                         !.position = sig]
         [] outcome = "done" ->
              [st EXCEPT !.orders = @ \o <<chk("ok"), snd("done")>>,
                         !.position = sig,
                         !.trades = @ + 1,
                         !.quote_units = QuoteUnits,
                         !.trade_values =
                             Append(@, IF sig = 1 THEN -QuoteUnits ELSE QuoteUnits),
                         !.broker = Append(@, type)]

\* AlgoTrader._open_position(position); outcome is what the terminal answers
open_position(st, sig, outcome, at, tpv, slv) ==
    LET type == IF sig = 1 THEN ORDER_TYPE_BUY ELSE ORDER_TYPE_SELL
        volume == adjusted_volume(st.lot_size, st.symbol_info.volume_step)
        chk(ret) == [Entry("order_check", "open", type, tpv, slv, at, ret)
                        EXCEPT !.volume = volume]
        snd(ret) == [Entry("order_send", "open", type, tpv, slv, at, ret)
                        EXCEPT !.volume = volume]
    IN CASE outcome = "no_tick" -> st
         [] outcome = "check_none" ->
              [st EXCEPT !.orders = Append(@, chk("none"))]
         [] outcome = "check_reject" ->
              [st EXCEPT !.orders = Append(@, chk("reject"))]
         [] outcome = "send_none" ->
              [st EXCEPT !.orders = @ \o <<chk("ok"), snd("none")>>]
         [] outcome = "send_requote" ->
              [st EXCEPT !.orders = @ \o <<chk("ok"), snd("requote")>>]
         [] outcome = "send_reject" ->
              [st EXCEPT !.orders = @ \o <<chk("ok"), snd("reject")>>]
         [] outcome = "done" ->
              [st EXCEPT !.orders = @ \o <<chk("ok"), snd("done")>>,
                         !.position = sig,
                         !.trades = @ + 1,
                         !.quote_units = QuoteUnits,
                         !.trade_values =
                             Append(@, IF sig = 1 THEN -QuoteUnits ELSE QuoteUnits),
                         !.broker = Append(@, type)]

\* what _open_position hands back to its caller: every path ends in a bare
\* return or falls off the end of the function
open_position_returns(outcome) == Null

\* the answers the terminal can give while new_position is executed
GatewayAnswers(new_position, inp) ==
    IF new_position # 0 THEN inp.outcomes ELSE {"done"}

\* AlgoTrader._execute_trades
execute_trades(st, new_position, outcome, at, tpv, slv) ==
    IF new_position # 0
    THEN open_position(st, new_position, outcome, at, tpv, slv)
    ELSE st

\* the positions of bp that stay open when those indexed by D were closed
Remaining(bp, D) ==
    LET keep == {i \in 1..Len(bp) : i \notin D}
        F[i \in 0..Len(bp)] ==
            IF i = 0 THEN <<>>
            ELSE IF i \in keep THEN Append(F[i - 1], bp[i]) ELSE F[i - 1]
    IN F[Len(bp)]

\* AlgoTrader._close_position: one order_send per open position, D the set
\* of positions whose close the gateway executes
close_position(bp, log, D, at) ==
    LET sent == [i \in 1..Len(bp) |->
                    Entry("order_send", "close", Opposite(bp[i]), Null, Null, at,
                          IF i \in D THEN "done" ELSE "reject")]
    IN [broker |-> Remaining(bp, D), orders |-> log \o sent]

\* One pass of the loop of _close_all_positions: mt5.Close(symbol) closes the
\* positions D and answers truthy iff it closed one; otherwise _close_position
\* runs, closing the positions D2.
CloseOnce(bp, log, D, D2, at) ==
    IF D # {}
    THEN [broker |-> Remaining(bp, D),
          orders |-> Append(log, Entry("Close", "close_all", Null, Null, Null, at,
                              IF D = 1..Len(bp) THEN "true" ELSE "partial"))]
    ELSE close_position(bp,
             Append(log, Entry("Close", "close_all", Null, Null, Null, at, "false")),
             D2, at)

\* ------------------------------------------------ initial state
\* wait_for_next_trading_hour is not running
NoWait ==
    [check_interval |-> Null, next_hour |-> Null, next_time |-> Null,
     wait_seconds |-> Null, slept |-> 0, result |-> Null]

NoTrader ==
    /\ mt5_connected = FALSE
    /\ lot_size = Null
    /\ symbol_info = NoSymbolInfo
    /\ data = <<>>
    /\ prepared = <<>>
    /\ position = 0
    /\ trades = 0
    /\ trade_values = <<>>
    /\ quote_units = 0
    /\ current_hour = Null
    /\ tp = Null
    /\ sl = Null
    /\ strategy_params =
           [hour |-> Null, position_type |-> "absent", allowed_hours |-> AllowedNone]

NoSession ==
    /\ end_time = <<Null, Null>>
    /\ rates = NoBar
    /\ escaped = "none"
    /\ orders = <<>>
    /\ evaluated = <<>>
    /\ returned = Null
    /\ flattened = FALSE
    /\ passes = 0
    /\ started = FALSE

\* the trader object and its session go out of scope
DropTrader ==
    /\ mt5_connected' = FALSE
    /\ lot_size' = Null
    /\ symbol_info' = NoSymbolInfo
    /\ data' = <<>>
    /\ prepared' = <<>>
    /\ position' = 0
    /\ trades' = 0
    /\ trade_values' = <<>>
    /\ quote_units' = 0
    /\ current_hour' = Null
    /\ tp' = Null
    /\ sl' = Null
    /\ strategy_params' =
           [hour |-> Null, position_type |-> "absent", allowed_hours |-> AllowedNone]
    /\ end_time' = <<Null, Null>>
    /\ rates' = NoBar
    /\ escaped' = "none"
    /\ orders' = <<>>
    /\ evaluated' = <<>>
    /\ returned' = Null
    /\ flattened' = FALSE
    /\ passes' = 0
    /\ started' = FALSE

InitFor(modes, lotes) ==
    /\ now = 0
    /\ mode \in modes
    /\ hours \in ConfiguredHours
    /\ \E lote \in lotes : Constructed("custom", "entries", lote)
    /\ pc = CASE mode = "current" -> "deploy"
              [] mode = "continuous" -> "loop"
              [] mode = "full_day" -> "day"
    /\ dayIdx = 1
    /\ target = Null
    /\ waited = FALSE
    /\ waiting = NoWait
    /\ terminal = FALSE
    /\ NoTrader
    /\ NoSession
    /\ broker = <<>>

\* a file that leaves the lot size to its default
InitWith(modes) == InitFor(modes, {Null})

\* ------------------------------------------------ environment
\* the wall clock advances; time is let pass before and after the session's
\* set-up and tear-down, which read no clock
ClockTick ==
    /\ now < MaxTime
    /\ pc \notin {"done", "crashed", "session", "flatten", "closing", "exit"}
    /\ now' = now + 1
    /\ UNCHANGED <<pc, terminal, broker, traderVars, sessionVars, deployVars>>

\* the broker closes a position on its take-profit or stop-loss
BrokerTpSl ==
    /\ pc = "stream"
    /\ \E i \in 1..Len(broker) :
         broker' = Remaining(broker, {i})
    /\ UNCHANGED <<now, pc, terminal, traderVars, sessionVars, deployVars>>

\* ------------------------------------------------ AutoDeployer
DeployOutcomes == {"ok", "connect_fail", "symbol_fail"}

\* _create_trader: strategy_params of the new trader (tp, sl, position_type
\* popped from the hour's parameters)
CreateParams(h) ==
    [hour |-> h, position_type |-> "absent",
     allowed_hours |-> get_current_hour_params(h).allowed_hours]

\* position_type="both" in the signature of the supplied strategies
DefaultPositionType == "both"

\* self.strategy_func(df, **self.strategy_params): the position_type the
\* strategy function runs with, its own default when the parameters have none
PassedPositionType(sp) ==
    IF sp.position_type = "absent" THEN DefaultPositionType ELSE sp.position_type

\* deploy_for_hour(target) with _create_trader and AlgoTrader.__init__; infos
\* are the answers mt5.symbol_info can give
DeployForHourWith(infos) ==
    /\ pc = "deploy"
    /\ LET h == IF target = Null THEN HourNow ELSE target
           hour_params == get_current_hour_params(h)
       IN IF ~is_trading_hour(h) \/ ~HasHourParams(h)
          THEN \* returns None
               /\ pc' = IF mode = "current" /\ ~waited THEN "wait"
                        ELSE IF mode = "continuous" THEN "wait"
                        ELSE IF mode = "full_day" THEN "day"
                        ELSE "done"
               /\ waited' = IF mode = "current" THEN TRUE ELSE waited
               /\ dayIdx' = IF mode = "full_day" THEN dayIdx + 1 ELSE dayIdx
               /\ UNCHANGED <<terminal, traderVars, sessionVars, mode, hours, target,
                              file, config, strategies_file, strategy, waiting>>
          ELSE \E r \in DeployOutcomes, info \in infos :
               CASE r = "connect_fail" ->
                      /\ pc' = "crashed"
                      /\ UNCHANGED <<terminal, traderVars, sessionVars, deployVars>>
                 [] r = "symbol_fail" ->
                      /\ pc' = "crashed"
                      /\ terminal' = TRUE
                      /\ UNCHANGED <<traderVars, sessionVars, deployVars>>
                 [] r = "ok" ->
                      /\ pc' = "session"
                      /\ terminal' = TRUE
                      /\ mt5_connected' = TRUE
                      /\ symbol_info' = info
                      /\ lot_size' = validate_lot_size(config.lote, info)
                      /\ data' = <<>>
                      /\ prepared' = <<>>
                      /\ position' = 0
                      /\ trades' = 0
                      /\ trade_values' = <<>>
                      /\ quote_units' = 0
                      /\ current_hour' = HourNow
                      /\ tp' = hour_params.tp
                      /\ sl' = hour_params.sl
                      /\ strategy_params' = CreateParams(h)
                      /\ end_time' = <<Null, Null>>
                      /\ rates' = NoBar
                      /\ escaped' = "none"
                      /\ orders' = <<>>
                      /\ evaluated' = <<>>
                      /\ returned' = Null
                      /\ flattened' = FALSE
                      /\ passes' = 0
                      /\ started' = FALSE
                      /\ UNCHANGED deployVars
    /\ UNCHANGED <<now, broker>>

\* a symbol traded in whole lots
DeployForHour == DeployForHourWith({DefaultSymbolInfo})

\* wait_for_next_trading_hour returns once the wall-clock hour is configured
WaitForNextTradingHour ==
    /\ pc = "wait"
    /\ is_trading_hour(HourNow)
    /\ pc' = IF mode = "current" THEN "deploy" ELSE "loop"
    /\ target' = IF mode = "current" THEN HourNow ELSE target
    /\ UNCHANGED <<now, terminal, broker, traderVars, sessionVars,
                   mode, hours, dayIdx, waited, file, config,
                   strategies_file, strategy, waiting>>

\* run_continuous: head of the while True loop
RunContinuous ==
    /\ pc = "loop"
    /\ IF is_trading_hour(HourNow)
       THEN pc' = "deploy" /\ target' = HourNow
       ELSE pc' = "wait" /\ target' = target
    /\ UNCHANGED <<now, terminal, broker, traderVars, sessionVars,
                   mode, hours, dayIdx, waited, file, config,
                   strategies_file, strategy, waiting>>

\* run_full_day: next hour of sorted(config.hours), after _wait_until_hour
RunFullDay ==
    /\ pc = "day"
    /\ LET sorted_hours == SortedSeq(hours)
       IN IF dayIdx > Len(sorted_hours)
          THEN pc' = "done" /\ target' = target
          ELSE /\ HourNow >= sorted_hours[dayIdx]
               /\ pc' = "deploy"
               /\ target' = sorted_hours[dayIdx]
    /\ UNCHANGED <<now, terminal, broker, traderVars, sessionVars,
                   mode, hours, dayIdx, waited, file, config,
                   strategies_file, strategy, waiting>>

\* ------------------------------------------------ AlgoTrader session
\* The answers the terminal is let give in a session: the bar times it
\* serves, what the strategy makes of the bar of each time, whether the
\* strategy raises, how the gateway answers an open, the rows the history
\* holds, how far the terminal's server clock (the bars' timestamps) runs ahead
\* of the wall clock.
FullInputs ==
    [times |-> Times, raws |-> [t \in Times |-> Signals], faults |-> Faults,
     outcomes |-> OpenOutcomes, bars |-> MaxBars, ahead |-> 0]
LeanInputs ==
    [times |-> Times, raws |-> [t \in Times |-> {0, 1}],
     faults |-> {"none", "strategy"},
     outcomes |-> {"send_reject", "done"}, bars |-> MaxBars, ahead |-> 0]

\* a terminal whose order_check and order_send can each answer None, a
\* rejection or success, under a strategy that says buy on every bar, and
\* ticks that raise in any of their calls
GatewayInputs ==
    [times |-> Times, raws |-> [t \in Times |-> {1}], faults |-> Faults,
     outcomes |-> OpenOutcomes, bars |-> MaxBars, ahead |-> 0]

\* a terminal whose server clock is one hour ahead of the wall clock, and a
\* strategy that may leave a bar without a signal (NaN)
ServerTimes == 0..(MaxTime + SlotsPerHour)
ServerInputs ==
    [times |-> ServerTimes, raws |-> [t \in ServerTimes |-> Raws],
     faults |-> {"none"}, outcomes |-> {"done"}, bars |-> MaxBars,
     ahead |-> SlotsPerHour]

\* the signals of six consecutive bars, oldest first
Script == <<0, 0, 1, 1, -1, 0>>

\* the time of the first bar of Script: its six bars are the ones before
\* time 0, hours ahead of the session's default end
ScenarioFirst == -Len(Script)
ScenarioTimes == (ScenarioFirst - 1)..MaxTime
ScenarioBar(k) == ScenarioFirst + k - 1

\* a neutral bar, the bars of Script, then no bar
ScenarioRaws ==
    [t \in ScenarioTimes |->
        IF t = ScenarioFirst - 1 THEN {0}
        ELSE IF t - ScenarioFirst + 1 \in 1..Len(Script)
             THEN {Script[t - ScenarioFirst + 1]}
             ELSE {}]

\* a gateway that accepts every order, a strategy that never raises
ScenarioInputs ==
    [times |-> ScenarioTimes, raws |-> ScenarioRaws, faults |-> {"none"},
     outcomes |-> {"done"}, bars |-> Len(Script) + 1, ahead |-> 0]

\* mt5.copy_rates_from(symbol, timeframe, now, bars): rows in time order, up
\* to the bar that is forming now or the one before
Histories(inp) ==
    { h \in UNION { [1..n -> [time : inp.times, raw : Raws]] : n \in 1..MaxHist } :
        /\ Last(h).time \in {now + inp.ahead - 1, now + inp.ahead}
        /\ \A i \in 1..Len(h) : h[i].raw \in inp.raws[h[i].time]
        /\ \A i \in 1..(Len(h) - 1) : h[i + 1].time = h[i].time + 1 }

\* mt5.copy_rates_from_pos(symbol, timeframe, 1, 1): the latest bars, or none
Feeds(inp) ==
    {b \in [time : inp.times, raw : Raws] :
        /\ b.time \in {now + inp.ahead - 1, now + inp.ahead}
        /\ b.raw \in inp.raws[b.time]} \cup {NoBar}

\* df.drop(df.tail(1).index)
DropLast(h) == SubSeq(h, 1, Len(h) - 1)

\* the (end_hour, end_minute) each driver hands to start_trading
SessionEnd ==
    CASE mode = "current" -> <<DefaultEndHour, DefaultEndMinute>>
      [] mode = "continuous" ->
           LET next_hour == get_next_trading_hour
           IN IF next_hour # Null /\ next_hour > target
              THEN <<next_hour, 0>>
              ELSE <<DefaultEndHour, DefaultEndMinute>>
      [] mode = "full_day" ->
           IF target < SetMax(hours)
           THEN <<target + 1, 0>>
           ELSE <<DefaultEndHour, DefaultEndMinute>>

\* (mutant) the exception leaves start_trading without the finally clause
OnSessionErrorNoFinally == "exit"

\* start_trading: where control goes when the try block raises (finally)
OnSessionError == "flatten"

\* (mutant) start_trading returns without the finally clause
OnStreamEndNoFinally == "exit"

\* start_trading: where control goes when _stream_and_trade returns (finally)
OnStreamEnd == "flatten"

\* start_trading up to the poll loop: _log_account_info, _load_historical_data
\* and the end_time of _stream_and_trade
StartTradingWith(inp) ==
    /\ pc = "session"
    /\ started' = TRUE
    /\ \E history \in Histories(inp), answer \in {"ok", "account_none", "rates_none"} :
         IF answer # "ok"
         THEN /\ escaped' = "error"
              /\ pc' = OnSessionError
              /\ UNCHANGED <<data, end_time>>
         ELSE /\ data' = DropLast(history)
              /\ end_time' = SessionEnd
              /\ pc' = "stream"
              /\ UNCHANGED escaped
    /\ UNCHANGED <<now, terminal, broker, mt5_connected, lot_size, symbol_info, prepared, position, trades,
                   trade_values, quote_units, current_hour, tp, sl, strategy_params,
                   rates, orders, evaluated, returned, flattened, passes,
                   deployVars>>

\* (mutant) the swap replaces tp and sl and leaves the strategy parameters
check_and_update_params_torn(ch, tpv, slv, sp) ==
    IF HourNow = ch \/ ~HasHourParams(HourNow)
    THEN [current_hour |-> HourNow, tp |-> tpv, sl |-> slv, strategy_params |-> sp]
    ELSE [current_hour |-> HourNow, tp |-> get_current_hour_params(HourNow).tp,
          sl |-> get_current_hour_params(HourNow).sl, strategy_params |-> sp]

\* _check_and_update_params: the (current_hour, tp, sl, strategy_params) it leaves
check_and_update_params(ch, tpv, slv, sp) ==
    IF HourNow = ch
    THEN [current_hour |-> ch, tp |-> tpv, sl |-> slv, strategy_params |-> sp]
    ELSE LET hour_params == get_current_hour_params(HourNow)
         IN IF HasHourParams(HourNow)
            THEN [current_hour |-> HourNow, tp |-> hour_params.tp, sl |-> hour_params.sl,
                  strategy_params |->
                      [hour |-> HourNow, position_type |-> hour_params.position_type,
                       allowed_hours |-> hour_params.allowed_hours]]
            ELSE [current_hour |-> HourNow, tp |-> tpv, sl |-> slv,
                  strategy_params |-> sp]

\* (mutant) a bar with the timestamp of the last stored bar counts as new
IsNewBarOrSame(bar, df) == bar.time >= Last(df).time

\* (mutant) any bar but the last stored one counts as new
IsNewBarOrOlder(bar, df) == bar.time # Last(df).time

\* if df.index[0] > self.data.index[-1]
IsNewBar(bar, df) == bar.time > Last(df).time

\* _update_data: self.data.loc[new_bar.index[0]] = [...]
update_data(df, bar) ==
    IF \E i \in 1..Len(df) : df[i].time = bar.time
    THEN [i \in 1..Len(df) |-> IF df[i].time = bar.time THEN bar ELSE df[i]]
    ELSE Append(df, bar)

\* (mutant) a failed read of the latest bar ends the poll loop
OnFeedFailureFatal == "flatten"

\* _stream_and_trade: where control goes when copy_rates_from_pos answered
\* None or nothing (continue)
OnFeedFailure == "stream"

\* (mutant) an exception of a tick leaves the poll loop
OnTickErrorFatal == "flatten"

\* _stream_and_trade: where control goes when the except clause of a tick
\* caught an exception (next pass of the loop)
OnTickError == "stream"

\* one pass of the while loop of _stream_and_trade
TickWith(inp) ==
    /\ pc = "stream"
    /\ Before(now, end_time[1], end_time[2])
    /\ \E feed \in Feeds(inp) :
         /\ rates' = feed
         /\ IF feed = NoBar
            THEN /\ pc' = OnFeedFailure
                 /\ UNCHANGED <<broker, traderVars, orders, evaluated, returned>>
            ELSE IF data = <<>>
            THEN \* IndexError on the empty history: caught
                 /\ pc' = OnTickError
                 /\ UNCHANGED <<broker, traderVars, orders, evaluated, returned>>
            ELSE IF ~IsNewBar(feed, data)
            THEN UNCHANGED <<pc, broker, traderVars, orders, evaluated, returned>>
            ELSE /\ Len(data) < inp.bars
                 /\ \E fault \in inp.faults :
                    LET stored == update_data(data, feed)
                        pos == process_strategy(stored, strategy_params)
                        np == check_and_update_params(current_hour, tp, sl,
                                                      strategy_params)
                    IN
                    /\ pc' = IF fault = "none" THEN "stream" ELSE OnTickError
                    /\ data' = IF fault = "store" THEN data ELSE stored
                    /\ IF fault \in {"store", "strategy"}
                       THEN UNCHANGED <<prepared, evaluated>>
                       ELSE /\ prepared' = pos
                            /\ evaluated' = Append(evaluated, feed.time)
                    /\ IF fault \in {"store", "strategy", "execute"}
                       THEN UNCHANGED <<broker, position, trades, trade_values,
                                        quote_units, orders, returned>>
                       ELSE \E outcome \in GatewayAnswers(Last(pos), inp) :
                            LET st == execute_trades(EngineState, Last(pos), outcome,
                                                     feed.time, tp, sl)
                            IN
                            /\ position' = st.position
                            /\ trades' = st.trades
                            /\ trade_values' = st.trade_values
                            /\ quote_units' = st.quote_units
                            /\ broker' = st.broker
                            /\ orders' = st.orders
                            /\ returned' = IF Last(pos) # 0
                                           THEN open_position_returns(outcome)
                                           ELSE returned
                    /\ IF fault \in {"store", "strategy", "execute"}
                       THEN UNCHANGED <<current_hour, tp, sl, strategy_params>>
                       ELSE IF fault = "params"
                       THEN \* raised after self.current_hour was assigned
                            /\ current_hour # HourNow
                            /\ current_hour' = HourNow
                            /\ UNCHANGED <<tp, sl, strategy_params>>
                       ELSE /\ current_hour' = np.current_hour
                            /\ tp' = np.tp
                            /\ sl' = np.sl
                            /\ strategy_params' = np.strategy_params
                 /\ UNCHANGED <<mt5_connected, lot_size, symbol_info>>
    /\ UNCHANGED <<now, terminal, end_time, escaped, flattened, passes, started,
                   deployVars>>

\* the loop condition fails: _stream_and_trade returns
StreamEnd ==
    /\ pc = "stream"
    /\ ~Before(now, end_time[1], end_time[2])
    /\ pc' = OnStreamEnd
    /\ rates' = NoBar
    /\ UNCHANGED <<now, terminal, broker, traderVars, end_time, escaped, orders,
                   evaluated, returned, flattened, passes, started, deployVars>>

\* the operator interrupts the session (KeyboardInterrupt in the loop)
Interrupt ==
    /\ pc = "stream"
    /\ escaped' = "interrupt"
    /\ pc' = OnSessionError
    /\ rates' = NoBar
    /\ UNCHANGED <<now, terminal, broker, traderVars, end_time, orders, evaluated, returned,
                   flattened, passes, started, deployVars>>

\* finally: self._close_all_positions(), up to its loop: positions_get, and
\* self.position = 0 when there is nothing to close
CloseAllPositions ==
    /\ pc = "flatten"
    /\ IF Len(broker) > 0
       THEN /\ passes' = Len(broker)
            /\ pc' = "closing"
            /\ UNCHANGED <<position, flattened>>
       ELSE /\ position' = 0
            /\ flattened' = TRUE
            /\ pc' = "exit"
            /\ UNCHANGED passes
    /\ UNCHANGED <<now, terminal, broker, mt5_connected, lot_size, symbol_info, data,
                   prepared, trades,
                   trade_values, quote_units, current_hour, tp, sl, strategy_params,
                   end_time, rates, escaped, orders, evaluated, returned, started,
                   deployVars>>

\* one pass of "for position in positions" of _close_all_positions, and
\* self.position = 0 after the last
ClosePass ==
    /\ pc = "closing"
    /\ \E r \in { CloseOnce(broker, orders, D, {}, Null) :
                      D \in (SUBSET (1..Len(broker))) \ {{}} }
                 \cup { CloseOnce(broker, orders, {}, D2, Null) :
                         D2 \in SUBSET (1..Len(broker)) } :
         /\ broker' = r.broker
         /\ orders' = r.orders
    /\ passes' = passes - 1
    /\ IF passes = 1
       THEN /\ position' = 0
            /\ flattened' = TRUE
            /\ pc' = "exit"
       ELSE UNCHANGED <<position, flattened, pc>>
    /\ UNCHANGED <<now, terminal, mt5_connected, lot_size, symbol_info, data, prepared,
                   trades, trade_values,
                   quote_units, current_hour, tp, sl, strategy_params, end_time, rates,
                   escaped, evaluated, returned, started, deployVars>>

\* AlgoTrader.__exit__ (disconnect_mt5), then the driver's except clause; the
\* trader object is dropped with the with-block
ExitTrader ==
    /\ pc = "exit"
    /\ terminal' = IF mt5_connected THEN FALSE ELSE terminal
    /\ DropTrader
    /\ pc' = CASE escaped = "interrupt" -> "crashed"
               [] mode = "current" -> IF escaped = "error" THEN "crashed" ELSE "done"
               [] mode = "continuous" -> "wait"
               [] mode = "full_day" -> "day"
    /\ dayIdx' = IF mode = "full_day" THEN dayIdx + 1 ELSE dayIdx
    /\ UNCHANGED <<now, broker, mode, hours, target, waited, file, config,
                   strategies_file, strategy, waiting>>

StartTrading == StartTradingWith(FullInputs)
Tick == TickWith(FullInputs)
StartTradingLean == StartTradingWith(LeanInputs)
TickLean == TickWith(LeanInputs)

\* deploy_from_config(mode="current"): one session, every answer of the terminal
Init == InitWith({"current"})

Next ==
    \/ ClockTick
    \/ BrokerTpSl
    \/ DeployForHour
    \/ WaitForNextTradingHour
    \/ StartTrading
    \/ Tick
    \/ StreamEnd
    \/ Interrupt
    \/ CloseAllPositions
    \/ ClosePass
    \/ ExitTrader

Spec == Init /\ [][Next]_vars

\* deploy_from_config in each mode: the sessions of a day
InitDeploy == InitWith(Modes)

NextDeploy ==
    \/ ClockTick
    \/ BrokerTpSl
    \/ DeployForHour
    \/ WaitForNextTradingHour
    \/ RunContinuous
    \/ RunFullDay
    \/ StartTradingLean
    \/ TickLean
    \/ StreamEnd
    \/ Interrupt
    \/ CloseAllPositions
    \/ ClosePass
    \/ ExitTrader

SpecDeploy == InitDeploy /\ [][NextDeploy]_vars

\* deploy_from_config(mode="current") on the day of Script: the session is
\* deployed at the hour of the first bar and runs to the default end
StartTradingScenario == StartTradingWith(ScenarioInputs)
TickScenario == TickWith(ScenarioInputs)

InitScenario ==
    /\ now = ScenarioFirst
    /\ mode = "current"
    /\ hours = {HourOf(ScenarioFirst)}
    /\ Constructed("custom", "entries", Null)
    /\ pc = "deploy"
    /\ dayIdx = 1
    /\ target = Null
    /\ waited = FALSE
    /\ waiting = NoWait
    /\ terminal = FALSE
    /\ NoTrader
    /\ NoSession
    /\ broker = <<>>

NextScenario ==
    \/ ClockTick
    \/ DeployForHour
    \/ StartTradingScenario
    \/ TickScenario
    \/ StreamEnd
    \/ CloseAllPositions
    \/ ClosePass
    \/ ExitTrader

SpecScenario == InitScenario /\ [][NextScenario]_vars

\* deploy_from_config(mode="current") against a terminal on server time
StartTradingServer == StartTradingWith(ServerInputs)
TickServer == TickWith(ServerInputs)

NextServer ==
    \/ ClockTick
    \/ DeployForHour
    \/ WaitForNextTradingHour
    \/ StartTradingServer
    \/ TickServer
    \/ StreamEnd
    \/ CloseAllPositions
    \/ ClosePass
    \/ ExitTrader

SpecServer == Init /\ [][NextServer]_vars

\* one session against every answer of the order gateway
StartTradingGateway == StartTradingWith(GatewayInputs)
TickGateway == TickWith(GatewayInputs)

NextGateway ==
    \/ ClockTick
    \/ DeployForHour
    \/ WaitForNextTradingHour
    \/ StartTradingGateway
    \/ TickGateway
    \/ StreamEnd
    \/ CloseAllPositions
    \/ ClosePass
    \/ ExitTrader

SpecGateway == Init /\ [][NextGateway]_vars

\* the same session with the scheduling the poll loop relies on: the wall
\* clock advances, and the loop condition is evaluated again after every pass
SpecPoll ==
    Init /\ [][NextGateway]_vars /\ WF_vars(ClockTick) /\ WF_vars(StreamEnd)

\* a strategy that says buy and sell on alternate bars, against every answer
\* of the order gateway
TwoSidedInputs ==
    [times |-> Times, raws |-> [t \in Times |-> {IF t % 2 = 0 THEN -1 ELSE 1}],
     faults |-> {"none"},
     outcomes |-> OpenOutcomes, bars |-> MaxBars, ahead |-> 0]

NextLedger ==
    \/ ClockTick
    \/ DeployForHour
    \/ WaitForNextTradingHour
    \/ StartTradingWith(TwoSidedInputs)
    \/ TickWith(TwoSidedInputs)
    \/ StreamEnd
    \/ CloseAllPositions
    \/ ClosePass
    \/ ExitTrader

SpecLedger == Init /\ [][NextLedger]_vars

\* ------------------------------------------------ _process_strategy alone
\* The evaluation of one window by a trader in its poll loop, for every window
\* and every strategy: pc names the strategy function the trader was built
\* with, evaluated tells that _process_strategy has run.
Strategies == {"custom", "pattern_rsi_trend", "bb_trend"}
SuppliedStrategies == {"pattern_rsi_trend", "bb_trend"}

\* consecutive bars, in time order
Windows ==
    UNION { { [i \in 1..n |-> [time |-> t + i - 1, raw |-> rs[i]]] :
                t \in {u \in ServerTimes : u + n - 1 \in ServerTimes},
                rs \in [1..n -> Raws] } : n \in 1..MaxBars }

EvalParams ==
    [hour : {FirstHour}, position_type : {"long", "short", "both"},
     allowed_hours : {AllowedNone, {FirstHour}, {FirstHour, FirstHour + 1}}]

InitEval ==
    /\ now = 0
    /\ mode = "current"
    /\ hours = {FirstHour}
    /\ pc \in Strategies
    /\ Constructed(pc, IF pc = "custom" THEN "entries" ELSE "builtin", Null)
    /\ dayIdx = 1
    /\ target = Null
    /\ waited = FALSE
    /\ waiting = NoWait
    /\ terminal = TRUE
    /\ broker = <<>>
    /\ mt5_connected = TRUE
    /\ symbol_info = DefaultSymbolInfo
    /\ lot_size = validate_lot_size(config.lote, DefaultSymbolInfo)
    /\ data \in Windows
    /\ prepared = <<>>
    /\ position = 0
    /\ trades = 0
    /\ trade_values = <<>>
    /\ quote_units = 0
    /\ current_hour = FirstHour
    /\ tp = get_current_hour_params(FirstHour).tp
    /\ sl = get_current_hour_params(FirstHour).sl
    /\ strategy_params \in EvalParams
    /\ end_time = <<DefaultEndHour, DefaultEndMinute>>
    /\ rates = NoBar
    /\ escaped = "none"
    /\ orders = <<>>
    /\ evaluated = <<>>
    /\ returned = Null
    /\ flattened = FALSE
    /\ passes = 0
    /\ started = TRUE

\* _process_strategy on the stored window with the given strategy output
ProcessWith(name, positions) ==
    /\ pc = name
    /\ evaluated = <<>>
    /\ prepared' = ProcessPositions(data, positions)
    /\ evaluated' = <<Last(data).time>>
    /\ UNCHANGED <<now, pc, terminal, broker, mt5_connected, lot_size, symbol_info, data,
                   position, trades,
                   trade_values, quote_units, current_hour, tp, sl, strategy_params,
                   end_time, rates, escaped, orders, returned, flattened, passes,
                   started, deployVars>>

ProcessCustom == ProcessWith("custom", strategy_func(data, strategy_params))

ProcessPatternRsiTrend ==
    ProcessWith("pattern_rsi_trend",
                pattern_rsi_trend(data, strategy_params.allowed_hours,
                                  strategy_params.position_type))

ProcessBbTrend ==
    ProcessWith("bb_trend",
                bb_trend(data, strategy_params.allowed_hours,
                         strategy_params.position_type))

NextEval ==
    \/ ProcessCustom
    \/ ProcessPatternRsiTrend
    \/ ProcessBbTrend

SpecEval == InitEval /\ [][NextEval]_vars

\* one session for every lot size of the file and every volume_min,
\* volume_max and volume_step the terminal can report for the symbol, against
\* a gateway that accepts every order
Lots == 1..MaxLot
SymbolInfos ==
    {info \in [volume_min : Lots, volume_max : Lots, volume_step : Lots] :
        info.volume_min <= info.volume_max}

VolumeInputs ==
    [times |-> Times, raws |-> [t \in Times |-> {1}], faults |-> {"none"},
     outcomes |-> {"done"}, bars |-> MaxBars, ahead |-> 0]

InitVolume == InitFor({"current"}, Lots)
DeployForHourVolume == DeployForHourWith(SymbolInfos)
StartTradingVolume == StartTradingWith(VolumeInputs)
TickVolume == TickWith(VolumeInputs)

NextVolume ==
    \/ ClockTick
    \/ DeployForHourVolume
    \/ WaitForNextTradingHour
    \/ StartTradingVolume
    \/ TickVolume
    \/ StreamEnd
    \/ CloseAllPositions
    \/ ClosePass
    \/ ExitTrader

SpecVolume == InitVolume /\ [][NextVolume]_vars

\* ------------------------------------------------ wait_for_next_trading_hour
\* The wait alone, on a clock that runs over midnight: a day has DayHours
\* hours, FirstHour the first, and time passes while the wait sleeps.
DaySlots == DayHours * SlotsPerHour
DayHourSet == FirstHour..(FirstHour + DayHours - 1)

\* datetime.now().hour
WallHour(t) == FirstHour + ((t \div SlotsPerHour) % DayHours)

\* now.replace(hour=h, minute=0, second=0, microsecond=0), days days later
StartOfHour(t, h, days) ==
    ((t \div DaySlots) + days) * DaySlots + (h - FirstHour) * SlotsPerHour

\* check_interval, in slots: from one slot to more than an hour
CheckIntervals == 1..(SlotsPerHour + 1)

\* min(check_interval, wait_seconds)
SleepLength(check_interval, wait_seconds) ==
    IF check_interval < wait_seconds THEN check_interval ELSE wait_seconds

InitWait ==
    /\ now \in 0..(DaySlots - 1)
    /\ mode \in {"current", "continuous"}
    /\ hours \in SUBSET DayHourSet
    /\ Constructed("custom", "entries", Null)
    /\ pc = "wait_check"
    /\ dayIdx = 1
    /\ target = Null
    /\ waited = (mode = "current")
    /\ waiting \in {[NoWait EXCEPT !.check_interval = c] : c \in CheckIntervals}
    /\ terminal = FALSE
    /\ NoTrader
    /\ NoSession
    /\ broker = <<>>

\* head of the while True loop: return in a trading hour, else next_hour,
\* next_time and wait_seconds. Only the time of day and the distance to
\* next_time matter to the wait, so the clock is counted from the start of the
\* day in which a wait is set up.
WaitCheck ==
    /\ pc = "wait_check"
    /\ LET hour_now == WallHour(now)
           next_hour == next_trading_hour(hours, hour_now)
           today == now % DaySlots
           next_time == IF next_hour > hour_now
                        THEN StartOfHour(today, next_hour, 0)
                        ELSE StartOfHour(today, next_hour, 1)
       IN IF is_trading_hour(hour_now)
          THEN /\ waiting' = [waiting EXCEPT !.result = hour_now]
               /\ pc' = "returned"
               /\ now' = now
          ELSE IF next_hour = Null
          THEN /\ waiting' = [waiting EXCEPT !.result = Null]
               /\ pc' = "returned"
               /\ now' = now
          ELSE /\ waiting' = [waiting EXCEPT !.next_hour = next_hour,
                                             !.next_time = next_time,
                                             !.wait_seconds = next_time - today]
               /\ pc' = "wait_sleep"
               /\ now' = today
    /\ UNCHANGED <<terminal, broker, traderVars, sessionVars, mode, hours,
                   dayIdx, target, waited, file, config, strategies_file, strategy>>

\* one pass of "while datetime.now() < next_time", with its time.sleep
WaitSleep ==
    /\ pc = "wait_sleep"
    /\ IF now < waiting.next_time
       THEN IF WallHour(now) = waiting.next_hour
            THEN /\ waiting' = [waiting EXCEPT !.result = waiting.next_hour]
                 /\ pc' = "returned"
                 /\ now' = now
            ELSE LET d == SleepLength(waiting.check_interval, waiting.wait_seconds)
                 IN /\ now' = now + d
                    /\ waiting' = [waiting EXCEPT !.slept = d]
                    /\ pc' = pc
       ELSE /\ pc' = "wait_check"
            /\ UNCHANGED <<now, waiting>>
    /\ UNCHANGED <<terminal, broker, traderVars, sessionVars, mode, hours,
                   dayIdx, target, waited, file, config, strategies_file, strategy>>

NextWait ==
    \/ WaitCheck
    \/ WaitSleep

\* the wait runs whenever it can take a step
SpecWait == InitWait /\ [][NextWait]_vars /\ WF_vars(NextWait)

\* ------------------------------------------------ AutoDeployer.__init__
\* The files a deployer is constructed from: every combination of a known or
\* unknown timeframe, a list of hours (empty, unsorted, or not a list) and
\* entries of hour_params with a field missing or out of range, and the valid
\* file with one top-level field missing.
StartupHours == {FirstHour, FirstHour + 1}
StrategyNames == {"custom", "bb_trend", "PERIOD", "unknown"}

ParamEntries ==
    {p \in [present : {RequiredParams} \cup {RequiredParams \ {f} : f \in RequiredParams},
            tp : {Null, 0, 10}, sl : {Null, -5, 5},
            position_type : {"absent", "long", "sideways"}] :
        /\ (p.tp = Null) <=> ("tp" \notin p.present)
        /\ (p.sl = Null) <=> ("sl" \notin p.present)
        /\ (p.position_type = "absent") <=> ("position_type" \notin p.present)}

HourLists ==
    {<<>>, <<FirstHour>>, <<FirstHour + 1>>, <<FirstHour, FirstHour + 1>>,
     <<FirstHour + 1, FirstHour>>}

Files ==
    {[present |-> RequiredFields, symbol |-> "WIN", timeframe |-> tf,
      strategy |-> name, hours_is_list |-> is_list, hours |-> hs,
      hour_params |-> hp, lote |-> Null] :
        tf \in {"t5", "x9"}, name \in StrategyNames, is_list \in BOOLEAN,
        hs \in HourLists,
        hp \in UNION {[K -> ParamEntries] : K \in SUBSET StartupHours}}
    \cup
    {[FileOf(StartupHours, name, Null) EXCEPT !.present = RequiredFields \ {f}] :
        name \in StrategyNames, f \in RequiredFields}

InitStartup ==
    /\ now = 0
    /\ mode = "current"
    /\ hours = {}
    /\ file \in {f \in Files : f.hours_is_list \/ f.hours = <<>>}
    /\ config = NoConfig
    /\ strategies_file \in StrategiesFiles
    /\ strategy = NoStrategy
    /\ pc = "new"
    /\ dayIdx = 1
    /\ target = Null
    /\ waited = FALSE
    /\ waiting = NoWait
    /\ terminal = FALSE
    /\ NoTrader
    /\ NoSession
    /\ broker = <<>>

\* AutoDeployer.__init__: ConfigManager(config_path), _load_strategy(), then
\* the log lines, the last of which reads self.config.magic_number, a field
\* StrategyConfig does not have (AttributeError); escaped names the call
\* that raised
Construct ==
    /\ pc = "new"
    /\ LET cfg == load_strategy_config(file)
           func == load_strategy(cfg.strategy, strategies_file)
       IN /\ config' = cfg
          /\ hours' = IF cfg = NoConfig THEN hours
                      ELSE {cfg.hours[i] : i \in 1..Len(cfg.hours)}
          /\ strategy' = IF cfg = NoConfig THEN NoStrategy ELSE func
          /\ escaped' = IF cfg = NoConfig THEN "config"
                        ELSE IF func = NoStrategy THEN "strategy"
                        ELSE "attribute"
    /\ pc' = "crashed"
    /\ UNCHANGED <<now, terminal, broker, traderVars, mode, dayIdx, target, waited,
                   file, strategies_file, waiting, end_time, rates, orders, evaluated,
                   returned, flattened, passes, started>>

NextStartup == Construct

SpecStartup == InitStartup /\ [][NextStartup]_vars

\* ================================================================ claims
IsSubmitted(e) == e.call # "order_check"

\* the requests that reached the gateway (order_send, mt5.Close)
Submitted(log) == SelectSeq(log, IsSubmitted)

\* the requests a step submits
NewIntents ==
    SubSeq(Submitted(orders'), Len(Submitted(orders)) + 1, Len(Submitted(orders')))

\* a pass of the poll loop that evaluated a new bar; Last(prepared') is its signal
EvaluatedTick == pc = "stream" /\ Len(evaluated') = Len(evaluated) + 1

\* C1: single-position invariant: at most one position opened by the engine is
\* open for the instrument at any time.
C1_SinglePosition == Len(broker) <= 1

\* C2: same-signal idempotence: a new bar whose signal equals the direction of
\* the held position submits no open and no close order.
C2_SameSignalNoOp ==
    [][(EvaluatedTick /\ Last(prepared') = position)
        => Submitted(orders') = Submitted(orders)]_vars

CloseTypeOf(held) == IF held = 1 THEN ORDER_TYPE_SELL ELSE ORDER_TYPE_BUY

\* C3: reversal is close-then-open: when the held position is LONG (SHORT) and
\* the new bar's signal is -1 (+1), the requests of the tick are a close of the
\* held side followed by the open of the new side; no open precedes the close.
C3_ReversalCloseThenOpen ==
    [][(EvaluatedTick /\ position # 0 /\ Last(prepared') = -position)
        => (NewIntents # <<>>
              => /\ NewIntents[1].kind = "close"
                 /\ NewIntents[1].type = CloseTypeOf(position)
                 /\ \A i \in 2..Len(NewIntents) : NewIntents[i].kind = "open")]_vars

\* C4: neutral signal closes: when the engine is LONG or SHORT and the new
\* bar's signal is 0, exactly one close is submitted, no open, and the state
\* becomes FLAT.
C4_NeutralCloses ==
    [][(EvaluatedTick /\ position # 0 /\ Last(prepared') = 0)
        => /\ position' = 0
           /\ Len(NewIntents) = 1
           /\ NewIntents[1].kind = "close"]_vars

\* what a submitted request asks for, and for which bar
Intent(e) == <<e.kind, e.type, e.at>>
Intents(log) == [i \in 1..Len(Submitted(log)) |-> Intent(Submitted(log)[i])]

\* the requests submitted while bars were evaluated / at the session end
DuringBars(e) == IsSubmitted(e) /\ e.at # Null
AtSessionEnd(e) == IsSubmitted(e) /\ e.at = Null

\* every bar of Script was evaluated, in order
ScriptEvaluated ==
    evaluated = [k \in 1..Len(Script) |-> ScenarioBar(k)]

\* C5: end-to-end scenario: FLAT, a gateway accepting every order, signals
\* [0,0,+1,+1,-1,0] over six consecutive new bars: the intents are exactly
\* open-long at bar 3, close-long then open-short at bar 5, the state ends
\* SHORT; the forced session end emits one close intent and leaves FLAT.
C5_EndToEndScenario ==
    (ScriptEvaluated /\ pc \in {"flatten", "closing", "exit"}) =>
        /\ Intents(SelectSeq(orders, DuringBars)) =
               << <<"open", ORDER_TYPE_BUY, ScenarioBar(3)>>,
                  <<"close", ORDER_TYPE_SELL, ScenarioBar(5)>>,
                  <<"open", ORDER_TYPE_SELL, ScenarioBar(5)>> >>
        /\ pc \in {"flatten", "closing"} => position = -1
        /\ pc = "exit" => /\ Len(SelectSeq(orders, AtSessionEnd)) = 1
                          /\ position = 0

\* C6: forced flatten on every termination path: whenever start_trading has
\* ended (end timestamp reached, history load failed, exception escaped),
\* _close_all_positions has run and the recorded position is FLAT.
C6_FlattenOnEveryExit == (pc = "exit") => (started /\ flattened /\ position = 0)

\* start_trading ended because the account or history read failed
C6_Witness == pc = "exit" /\ escaped = "error" /\ flattened

\* C7: flatten precedes disconnect: in every mode, the terminal connection is
\* released only after the session's _close_all_positions has run.
C7_FlattenPrecedesDisconnect ==
    [][(terminal /\ ~terminal') => (started /\ flattened)]_vars

\* run_full_day has finished a session and released the connection
C7_Witness == mode = "full_day" /\ pc = "day" /\ dayIdx > 1 /\ ~terminal

NoDuplicates(seq) ==
    \A i, j \in 1..Len(seq) : i # j => seq[i] # seq[j]

\* the pass that ends in this step read a bar and the history was not empty
ReadBar == pc = "stream" /\ pc' = "stream" /\ rates' # NoBar /\ data # <<>>

\* C8: bar idempotence: a poll whose bar has the timestamp of the last stored
\* bar triggers no evaluation and no execution, and no timestamp is evaluated
\* twice in a session.
C8_BarIdempotence ==
    [][/\ NoDuplicates(evaluated')
       /\ (ReadBar /\ rates'.time = Last(data).time)
            => (evaluated' = evaluated /\ orders' = orders)]_vars

\* the engine polled the bar it had already evaluated, with other values
C8_Witness ==
    /\ pc = "stream" /\ data # <<>> /\ rates # NoBar /\ evaluated # <<>>
    /\ rates.time = Last(data).time
    /\ rates.raw # Last(data).raw
    /\ Last(evaluated) = rates.time

\* C9: correction of the last bar: a fed bar with the timestamp of the last
\* stored bar overwrites the last entry with the fed values and triggers no
\* re-evaluation.
C9_CorrectionStored ==
    [][(ReadBar /\ rates'.time = Last(data).time)
        => (Last(data') = rates' /\ evaluated' = evaluated)]_vars

StrictlyIncreasing(df) ==
    \A i \in 1..(Len(df) - 1) : df[i].time < df[i + 1].time

\* C10: bar store ordering: the stored history always has strictly increasing
\* timestamps, and a fed bar older than the last stored bar leaves it unchanged.
C10_BarStoreOrdered ==
    [][/\ StrictlyIncreasing(data')
       /\ (ReadBar /\ rates'.time < Last(data).time) => data' = data]_vars

\* a bar older than the last stored one was fed to a history of several bars
C10_Witness ==
    /\ pc = "stream" /\ Len(data) > 1 /\ rates # NoBar
    /\ rates.time < Last(data).time

\* C11: bounded window: the history handed to the evaluator never holds more
\* rows than the window bound (the bars argument of _load_historical_data,
\* here MaxHist); the oldest rows are trimmed when an append would exceed it.
C11_BoundedWindow == Len(data) <= MaxHist

\* a pass of the poll loop that read the terminal and stayed in the loop
PollTick == pc = "stream" /\ pc' = "stream" /\ rates' # rates

\* C12: hour-boundary check on every tick: after a poll tick that brought
\* no new bar, as after any other, the recorded hour is the wall-clock hour.
C12_HourCheckEveryTick ==
    [][(PollTick /\ ReadBar /\ ~IsNewBar(rates', data))
        => current_hour' = HourNow]_vars

\* the open requests built in this step
NewOpens == SelectSeq(NewIntents, LAMBDA e : e.kind = "open")

\* C13: hour-boundary scenario: the evaluation made at the first tick of a
\* configured hour, and the order built from it, use that hour's take-profit
\* and stop-loss.
C13_BoundaryUsesNewParams ==
    [][(EvaluatedTick /\ HasHourParams(HourNow)) =>
        \A i \in 1..Len(NewOpens) :
            /\ NewOpens[i].tp = get_current_hour_params(HourNow).tp
            /\ NewOpens[i].sl = get_current_hour_params(HourNow).sl]_vars

\* C14: no-active-session sub-state: once the engine has recorded an hour that
\* has no configured parameters, its ticks submit no open request.
C14_NoOpenWithoutParams ==
    [][(EvaluatedTick /\ current_hour = HourNow /\ ~HasHourParams(HourNow))
        => NewOpens = <<>>]_vars

\* the active take-profit and stop-loss are those of the hour whose signal
\* parameters are active
SameTuple(tpv, slv, sp) ==
    /\ tpv = get_current_hour_params(sp.hour).tp
    /\ slv = get_current_hour_params(sp.hour).sl

\* C15: no tearing of hour parameters: take-profit, stop-loss and signal
\* parameters are replaced together, and the order built in a tick carries the
\* take-profit and stop-loss of the tuple its evaluation used.
C15_NoTearing ==
    [][/\ mt5_connected' => SameTuple(tp', sl', strategy_params')
       /\ EvaluatedTick =>
            \A i \in 1..Len(NewOpens) :
                SameTuple(NewOpens[i].tp, NewOpens[i].sl, strategy_params)]_vars

\* orders were built under two hours' tuples in one session
C15_Witness ==
    /\ pc = "stream" /\ strategy_params.hour = HourNow
    /\ \E i, j \in 1..Len(orders) :
         /\ orders[i].kind = "open" /\ orders[j].kind = "open"
         /\ orders[i].tp # orders[j].tp
         /\ orders[j].tp = tp

\* C16: session-end rule: a bar timestamped at hour >= 18 evaluates to signal
\* 0 whatever the strategy yields for it, and when a position is held the tick
\* submits a close of it.
C16_SessionEndRule ==
    [][(EvaluatedTick /\ HourOf(Last(data').time) >= CutoffHour) =>
        /\ Last(prepared') = 0
        /\ position # 0 =>
             \E i \in 1..Len(NewIntents) :
                 /\ NewIntents[i].kind = "close"
                 /\ NewIntents[i].type = CloseTypeOf(position)]_vars

\* the most recent signal the strategy computed up to row i, 0 when none
FilledAt(df, i) ==
    LET known == {j \in 1..i : df[j].raw # Null}
    IN IF known = {} THEN 0 ELSE df[SetMax(known)].raw

\* C17: forward-fill: every bar before the session-end cutoff reads the signal
\* the strategy computed for it, or else the most recent earlier computed
\* signal, or else 0 (warm-up);
\* [+1, null, null, -1] reads [+1, +1, +1, -1].
C17_ForwardFill ==
    /\ FfillFillna(<<1, Null, Null, -1>>) = <<1, 1, 1, -1>>
    /\ FfillFillna(<<Null, Null, -1>>) = <<0, 0, -1>>
    /\ pc \notin SuppliedStrategies =>
         \A i \in 1..Len(prepared) :
             HourOf(data[i].time) < CutoffHour => prepared[i] = FilledAt(data, i)

\* a bar without a signal read the non-zero signal of an earlier bar
C17_Witness ==
    /\ pc = "custom"
    /\ \E i \in 2..Len(prepared) :
         /\ data[i].raw = Null
         /\ HourOf(data[i].time) < CutoffHour
         /\ prepared[i] # 0

\* C18: hour restriction: with allowed_hours configured, every bar of the
\* window whose hour is not allowed has final signal 0 under both supplied
\* strategies, whatever its indicators say and whatever earlier bars read.
C18_HourRestriction ==
    (pc \in SuppliedStrategies /\ evaluated # <<>>
       /\ strategy_params.allowed_hours # AllowedNone) =>
        \A i \in 1..Len(prepared) :
            HourOf(data[i].time) \notin strategy_params.allowed_hours
                => prepared[i] = 0

\* a bar outside the allowed hours whose condition holds reads 0 right after
\* a bar that reads a signal
C18_Witness ==
    /\ pc \in SuppliedStrategies /\ evaluated # <<>>
    /\ strategy_params.allowed_hours # AllowedNone
    /\ \E i \in 2..Len(prepared) :
         /\ HourOf(data[i].time) \notin strategy_params.allowed_hours
         /\ HourOf(data[i].time) < CutoffHour
         /\ data[i].raw \in {-1, 1}
         /\ prepared[i - 1] # 0
         /\ prepared[i] = 0

\* C19: position_type in the evaluators: under both supplied strategies,
\* position_type long yields no -1 and position_type short yields no +1.
C19_PositionTypeRestricts ==
    (pc \in SuppliedStrategies /\ evaluated # <<>>) =>
        \A i \in 1..Len(prepared) :
            /\ strategy_params.position_type = "long" => prepared[i] # -1
            /\ strategy_params.position_type = "short" => prepared[i] # 1

\* the requests of the log that open a position, by the gateway call
IsOpenSend(e) == e.call = "order_send" /\ e.kind = "open"
IsOpenCheck(e) == e.call = "order_check" /\ e.kind = "open"

\* C20: pre-flight before submit: every order_send of an open request comes
\* right after an order_check of the same request that answered success, and
\* an order_check that answered None or a rejection is followed by no
\* order_send for the intent of that bar.
C20_PreflightBeforeSubmit ==
    \A i \in 1..Len(orders) :
        /\ IsOpenSend(orders[i]) =>
              /\ i > 1
              /\ orders[i - 1] =
                    [orders[i] EXCEPT !.call = "order_check", !.ret = "ok"]
        /\ (IsOpenCheck(orders[i]) /\ orders[i].ret # "ok") =>
              \A j \in 1..Len(orders) :
                  IsOpenSend(orders[j]) => orders[j].at # orders[i].at

\* a check that failed on one bar and a checked request submitted on another
C20_Witness ==
    \E i, j \in 1..Len(orders) :
        /\ IsOpenCheck(orders[i]) /\ orders[i].ret \in {"none", "reject"}
        /\ IsOpenSend(orders[j]) /\ i < j

\* C21: close path reuses the open path: every close request submitted with
\* order_send comes right after an order_check of the same request that
\* answered success.
C21_ClosePreflight ==
    \A i \in 1..Len(orders) :
        (orders[i].call = "order_send" /\ orders[i].kind = "close") =>
            /\ i > 1
            /\ orders[i - 1] =
                   [orders[i] EXCEPT !.call = "order_check", !.ret = "ok"]

\* the gateway entries a step adds to the log
NewEntries == SubSeq(orders', Len(orders) + 1, Len(orders'))

\* C22: transient rejection is retried once: an open order the gateway
\* rejects with a requote or price change is submitted again, for the same
\* bar and side, within the same execution decision.
C22_TransientRetriedOnce ==
    [][EvaluatedTick =>
        \A i \in 1..Len(NewEntries) :
            (IsOpenSend(NewEntries[i]) /\ NewEntries[i].ret = "requote"
               /\ (i = 1 \/ NewEntries[i - 1].call = "order_check")) =>
                /\ i < Len(NewEntries)
                /\ IsOpenSend(NewEntries[i + 1])
                /\ NewEntries[i + 1].at = NewEntries[i].at
                /\ NewEntries[i + 1].type = NewEntries[i].type]_vars

\* a gateway answer that ends the attempt: a failed pre-flight check, or an
\* order_send rejection that is not a requote
IsTerminalAnswer(e) ==
    \/ IsOpenCheck(e) /\ e.ret # "ok"
    \/ IsOpenSend(e) /\ e.ret = "reject"

\* C23: no blind retry: after a pre-flight failure or a rejection of
\* configuration or environment class, nothing more is sent to the gateway
\* within the same tick.
C23_NoBlindRetry ==
    [][EvaluatedTick =>
        \A i \in 1..Len(NewEntries) :
            IsTerminalAnswer(NewEntries[i]) => i = Len(NewEntries)]_vars

\* one bar's order was rejected by the gateway and dropped, and the next
\* bar's order was accepted
C23_Witness ==
    \E j, k \in 1..Len(orders) :
        /\ IsOpenSend(orders[j]) /\ orders[j].ret = "reject"
        /\ IsOpenSend(orders[k]) /\ orders[k].ret = "done"
        /\ j < k /\ orders[j].at < orders[k].at

\* C28: guaranteed disconnect: when the deployer has finished, by return or
\* by exception, no terminal connection made by the engine is left open.
C28_GuaranteedDisconnect == pc \in {"done", "crashed"} => ~terminal

\* the poll loop is running and its end timestamp is still ahead
InLoop == pc = "stream" /\ Before(now, end_time[1], end_time[2])

\* C29: feed failure is not fatal: a pass of the poll loop whose latest-bar
\* read answers None or nothing changes neither the price history nor the
\* position nor the parameters, submits no order, and stays in the loop.
C29_FeedFailureNotFatal ==
    [][(InLoop /\ rates # NoBar /\ rates' = NoBar) =>
        /\ pc' = "stream"
        /\ UNCHANGED <<data, prepared, position, trades, trade_values, quote_units,
                       current_hour, tp, sl, strategy_params, orders, broker,
                       mt5_connected, terminal>>]_vars

\* after an evaluated bar a read failed and the session is still polling
C29_Witness == pc = "stream" /\ rates = NoBar /\ evaluated # <<>>

\* C30: a bad tick never ends the session: while the end timestamp is ahead,
\* no pass of the poll loop leaves the loop, whichever of its calls raises.
C30_BadTickNotFatal == [][InLoop => pc' = "stream"]_vars

\* after an evaluated bar, the strategy raised on the bar just stored and
\* the session is still polling
C30_Witness ==
    /\ pc = "stream" /\ evaluated # <<>> /\ rates # NoBar /\ data # <<>>
    /\ Last(data) = rates
    /\ \A i \in 1..Len(evaluated) : evaluated[i] # rates.time

\* C24: rejections are surfaced: when an open attempt ends in a failed
\* pre-flight check, a null gateway response or a return code other than
\* DONE, the caller receives an outcome value (not None) for it.
C24_RejectionsSurfaced ==
    [][(EvaluatedTick /\ NewEntries # <<>> /\ Last(NewEntries).ret # "done")
        => returned' # Null]_vars

\* what makes an entry of hour_params unacceptable
BadParams(p) ==
    \/ RequiredParams \ p.present # {}
    \/ p.position_type \notin {"long", "short", "both"}
    \/ p.tp <= 0
    \/ p.sl <= 0

\* what makes a file unacceptable
BadFile(f) ==
    \/ RequiredFields \ f.present # {}
    \/ f.timeframe \notin VALID_TIMEFRAMES
    \/ ~f.hours_is_list
    \/ f.hours = <<>>
    \/ \E i \in 1..Len(f.hours) :
          \/ f.hours[i] \notin DOMAIN f.hour_params
          \/ BadParams(f.hour_params[f.hours[i]])

\* C26: configuration validation: load_strategy_config raises and returns no
\* configuration for a file that misses a required field, has an unsupported
\* timeframe, an empty hour list, a declared hour without hour_params entry,
\* a position_type outside {long, short, both} or a non-positive tp or sl;
\* every configuration it returns has none of these for any declared hour.
C26_ConfigValidation ==
    pc # "new" =>
        /\ BadFile(file) => (config = NoConfig /\ escaped = "config")
        /\ config # NoConfig =>
              /\ config.timeframe \in VALID_TIMEFRAMES
              /\ config.hours # <<>>
              /\ \A i \in 1..Len(config.hours) :
                    /\ config.hours[i] \in DOMAIN config.hour_params
                    /\ ~BadParams(config.hour_params[config.hours[i]])

\* a file whose only defect is the stop-loss of its second declared hour
C26_Witness ==
    /\ pc = "crashed" /\ config = NoConfig
    /\ Len(file.hours) = 2
    /\ validate_config(file) = "sl"
    /\ ~BadParams(file.hour_params[file.hours[1]])

\* the name is not that of a strategy function the strategies file offers
UnknownStrategy(name, sfile) ==
    \/ sfile = "builtin" /\ name \notin BuiltinStrategies
    \/ sfile = "entries" /\ name \notin FileCallables
    \/ sfile = "missing"

\* C27: strategy resolution is startup-fatal: with a valid configuration
\* whose strategy name is unknown, construction fails in the resolution of
\* the name: no strategy function is held, no trader was created, no terminal
\* connection was opened and no order was submitted.
C27_StrategyResolutionFatal ==
    (pc # "new" /\ config # NoConfig
        /\ UnknownStrategy(config.strategy, strategies_file)) =>
        /\ pc = "crashed" /\ escaped = "strategy"
        /\ strategy = NoStrategy
        /\ ~terminal /\ ~mt5_connected /\ orders = <<>>

\* a valid configuration naming a strategy the package does not have
C27_Witness ==
    /\ pc = "crashed" /\ escaped = "strategy" /\ config # NoConfig
    /\ strategies_file = "builtin" /\ config.strategy = "unknown"

\* C25: volume rounding: the volume of every submitted open order is a
\* multiple of the symbol's volume step, within the symbol's minimum and
\* maximum, and, for a lot size within them, the multiple nearest to the lot
\* size (0.37 with step 0.1 gives 0.4).
C25_VolumeRounding ==
    /\ adjusted_volume(37, 10) = 40
    /\ \A i \in 1..Len(orders) :
         IsOpenSend(orders[i]) =>
            /\ orders[i].volume % symbol_info.volume_step = 0
            /\ orders[i].volume >= symbol_info.volume_min
            /\ orders[i].volume <= symbol_info.volume_max
            /\ (config.lote >= symbol_info.volume_min
                  /\ config.lote <= symbol_info.volume_max) =>
                  LET d == orders[i].volume - config.lote
                  IN  2 * (IF d >= 0 THEN d ELSE -d) <= symbol_info.volume_step

\* C32: the trade ledger is append-only: while a trader lives the ledger keeps
\* its entries and only grows, a step appends exactly one entry per open order
\* the gateway accepted (negative for a buy, positive for a sell) and none for
\* a rejected or unsent one, and its length always equals the trades counter.
C32_LedgerAppendOnly ==
    [][(mt5_connected /\ mt5_connected') =>
        LET old == Len(trade_values)
            accepted == SelectSeq(NewEntries,
                                  LAMBDA e : IsOpenSend(e) /\ e.ret = "done")
        IN /\ Len(trade_values') = old + Len(accepted)
           /\ SubSeq(trade_values', 1, old) = trade_values
           /\ \A i \in 1..Len(accepted) :
                 IF accepted[i].type = ORDER_TYPE_BUY
                 THEN trade_values'[old + i] < 0
                 ELSE trade_values'[old + i] > 0
           /\ Len(trade_values') = trades'
           /\ Len(trade_values) = trades]_vars

\* a buy was rejected and left no entry, then a sell was accepted and the
\* ledger holds its entry
C32_Witness ==
    /\ trades = 1 /\ Len(trade_values) = 1 /\ trade_values[1] > 0
    /\ \E j, k \in 1..Len(orders) :
         /\ j < k
         /\ IsOpenSend(orders[j]) /\ orders[j].ret = "reject"
         /\ orders[j].type = ORDER_TYPE_BUY
         /\ IsOpenSend(orders[k]) /\ orders[k].ret = "done"
         /\ orders[k].type = ORDER_TYPE_SELL

\* C34: a failed open leaves the state unchanged: a tick whose open attempt
\* ends without an accepted order (no quote, pre-flight check None or
\* non-zero, order_send None, return code other than DONE) changes neither the
\* recorded position nor the trades counter nor quote_units nor the ledger.
C34_FailedOpenNoEffect ==
    [][(EvaluatedTick /\ Last(prepared') # 0
          /\ \A i \in 1..Len(NewEntries) :
                ~(IsOpenSend(NewEntries[i]) /\ NewEntries[i].ret = "done"))
        => UNCHANGED <<position, trades, quote_units, trade_values>>]_vars

\* a buy was accepted, the sell of the next bar failed its pre-flight check,
\* and the engine still records the long position and one trade
C34_Witness ==
    /\ position = 1 /\ trades = 1 /\ Len(evaluated) = 2
    /\ \E j, k \in 1..Len(orders) :
         /\ j < k
         /\ IsOpenSend(orders[j]) /\ orders[j].ret = "done"
         /\ IsOpenCheck(orders[k]) /\ orders[k].ret = "reject"
         /\ orders[k].type = ORDER_TYPE_SELL

\* C35: flatten reconciles with the broker: once start_trading has finished
\* (by return or by exception) the recorded position is FLAT and the broker
\* holds no open position of the symbol.
C35_FlattenReconciles ==
    (pc = "exit" /\ flattened) => (position = 0 /\ broker = <<>>)

\* C33: the active position_type reaches the evaluator: in every evaluation,
\* the position_type the signal evaluator runs with is the position_type of
\* the hour parameters that are active, those installed at deployment as well
\* as those installed by an hour-boundary swap.
C33_PositionTypeReachesEvaluator ==
    [][EvaluatedTick =>
        PassedPositionType(strategy_params) =
            get_current_hour_params(strategy_params.hour).position_type]_vars

\* C36: one session per configured hour in continuous mode: when the session
\* that run_continuous started for hour h has ended (target still names h),
\* the loop starts no further deployment while the wall-clock hour is h.
C36_OneSessionPerHour ==
    [][(mode = "continuous" /\ pc = "loop" /\ pc' = "deploy")
        => target # HourNow]_vars

\* C37: full-day sessions are isolated: run_full_day deploys the configured
\* hours in ascending order, each deployment starts with the previous
\* session's trader flattened and disconnected, and a failure while deploying
\* or running the session of one hour (other than the operator's interrupt)
\* ends the run only when no later configured hour is left.
C37_FullDayIsolated ==
    [][mode = "full_day" =>
        /\ (pc = "day" /\ pc' = "deploy") =>
              /\ target' > target
              /\ ~terminal /\ ~mt5_connected
        /\ (pc # "crashed" /\ pc' = "crashed" /\ escaped # "interrupt") =>
              dayIdx >= Cardinality(hours)]_vars

\* the wall clock has reached the end timestamp of the session
EndReached ==
    \/ HourOf(now) > end_time[1]
    \/ HourOf(now) = end_time[1] /\ MinuteOf(now) >= end_time[2]

\* C39: poll loop termination: once the wall clock has reached the end
\* timestamp the poll loop executes no further tick (nothing is read,
\* evaluated or submitted) and terminates, whatever the feed returned and
\* whichever ticks raised; the forced flatten runs after it, also when the
\* end timestamp was already past at the session's start and no bar was
\* evaluated, and then no open order was submitted.
C39_PollLoopTerminates ==
    /\ [][(pc = "stream" /\ EndReached) =>
            /\ evaluated' = evaluated /\ orders' = orders /\ data' = data
            /\ rates' \in {rates, NoBar}
            /\ pc' \in {"stream", "flatten"}]_vars
    /\ [](pc = "exit" =>
            /\ flattened
            /\ evaluated = <<>> => \A i \in 1..Len(orders) : orders[i].kind # "open")
    /\ (pc = "stream" /\ EndReached) ~> (pc # "stream")

\* the loop ended at the end timestamp, later than the last bar it
\* evaluated, and the flatten has run
C39_Witness ==
    /\ pc = "exit" /\ flattened /\ escaped = "none" /\ EndReached
    /\ evaluated # <<>> /\ Last(evaluated) < now

\* C38: waiting for the next trading hour: with configured hours and an
\* advancing clock wait_for_next_trading_hour eventually returns, the hour it
\* returns is a configured trading hour and the wall-clock hour of the moment
\* it returns, and no sleep is longer than check_interval.
C38_WaitReturns ==
    /\ []((pc = "returned" /\ hours # {}) =>
            /\ waiting.result \in hours
            /\ waiting.result = WallHour(now))
    /\ [](waiting.slept <= waiting.check_interval)
    /\ <>(pc = "returned")

\* the hour returned and the length of the sleeps, without the return itself
WaitReturnsTradingHour ==
    /\ (pc = "returned" /\ hours # {}) =>
        /\ waiting.result \in hours
        /\ waiting.result = WallHour(now)
    /\ waiting.slept <= waiting.check_interval

\* with slices of at most one hour the wait returns
WaitReturnsWithHourSlices ==
    <>(pc = "returned" \/ waiting.check_interval > SlotsPerHour)

\* the wait left its inner loop past next_time in an hour that is not
\* configured: the sleep went over the whole of next_hour
WaitOverslept ==
    /\ pc = "wait_check" /\ waiting.next_time # Null
    /\ now >= waiting.next_time
    /\ ~is_trading_hour(WallHour(now))

\* the hours later today than the hour the clock shows
LaterToday == {h \in hours : h > WallHour(now)}

\* wait_for_next_trading_hour asks for the next trading hour
AsksNextHour == pc = "wait_check" /\ ~is_trading_hour(WallHour(now))

====
